---- MODULE Spec2Model ----
(***************************************************************************)
(* path-weaver: the graph value type (src/core/graph.ts), the binary-heap  *)
(* priority queue and the two step generators (core/algorithms/dijkstra,   *)
(* core/algorithms/astar).                                                 *)
(*                                                                         *)
(* JavaScript Maps and Sets are insertion ordered.  A Set<string> is       *)
(* modelled as a duplicate-free sequence, the edges Map as a sequence of   *)
(* edge records in insertion order.  Set objects are heap cells: `sets`    *)
(* maps a reference to the content of the Set it denotes, and a graph's    *)
(* adjacencyList maps node ids to references, so that two graph values     *)
(* that share a Set object share its reference.                            *)
(* The nodes Map is a set of ids: the modelled code reads it by key and    *)
(* fills per-node maps from it, so its iteration order is not observable;  *)
(* node coordinates enter only through the heuristic, which is modelled as *)
(* the function n |-> heuristic(n, target).  Infinity is a number larger   *)
(* than every path weight of the bounded graphs.                           *)
(***************************************************************************)
EXTENDS Integers, Sequences, FiniteSets, TLC

Null == "null"

(* ---------- bounds of the graph-edit specification ---------- *)
MaxOps == 4
EditNodeIds == {"A", "B"}
EditEdgeIds == {"e1", "e2"}
EditWeights == {1}

(* ---------- ordered collections ---------- *)
Range(s) == {s[i] : i \in 1..Len(s)}

SetAdd(s, x) == IF x \in Range(s) THEN s ELSE Append(s, x)

SetDelete(s, x) == SelectSeq(s, LAMBDA y : y # x)

EdgeIds(edges) == {edges[i].id : i \in 1..Len(edges)}

EdgeIndex(edges, id) == CHOOSE i \in 1..Len(edges) : edges[i].id = id

MapGetEdge(edges, id) == edges[EdgeIndex(edges, id)]

MapSetEdge(edges, e) ==
    IF e.id \in EdgeIds(edges)
    THEN [edges EXCEPT ![EdgeIndex(edges, e.id)] = e]
    ELSE Append(edges, e)

MapDeleteEdges(edges, ids) == SelectSeq(edges, LAMBDA e : e.id \notin ids)

MapDeleteKey(f, k) == [x \in (DOMAIN f) \ {k} |-> f[x]]

(* Map.get: undefined for a key the map does not hold *)
Undefined == "undefined"

MapGet(f, k) == IF k \in DOMAIN f THEN f[k] ELSE Undefined

MapSetKey(f, k, v) == [x \in (DOMAIN f) \cup {k} |-> IF x = k THEN v ELSE f[x]]

(* ---------- graph.ts ---------- *)
NoSets == <<>>

createGraph(directed) ==
    [nodes |-> {}, edges |-> <<>>, adjacencyList |-> <<>>, directed |-> directed]

(* every operation returns the heap after the call and the returned graph *)
addNode(s, g, nodeId) ==
    LET fresh == nodeId \notin DOMAIN g.adjacencyList
        ref   == Len(s) + 1
    IN  [sets  |-> IF fresh THEN Append(s, <<>>) ELSE s,
         graph |-> [g EXCEPT !.nodes = g.nodes \cup {nodeId},
                             !.adjacencyList =
                                 IF fresh THEN MapSetKey(g.adjacencyList, nodeId, ref)
                                          ELSE g.adjacencyList]]

removeNode(s, g, nodeId) ==
    LET incident == {i \in 1..Len(g.edges) :
                        g.edges[i].source = nodeId \/ g.edges[i].target = nodeId}
        otherId(e) == IF e.source = nodeId THEN e.target ELSE e.source
        (* edge ids deleted from the Set object r, which is not copied *)
        gone(r) == {g.edges[i].id : i \in {j \in incident :
                        /\ otherId(g.edges[j]) \in DOMAIN g.adjacencyList
                        /\ g.adjacencyList[otherId(g.edges[j])] = r}}
    IN  [sets  |-> [r \in DOMAIN s |-> SelectSeq(s[r], LAMBDA id : id \notin gone(r))],
         graph |-> [g EXCEPT !.nodes = g.nodes \ {nodeId},
                             !.edges = MapDeleteEdges(g.edges,
                                          {g.edges[i].id : i \in incident}),
                             !.adjacencyList = MapDeleteKey(g.adjacencyList, nodeId)]]

addEdge(s, g, e) ==
    LET adj0 == g.adjacencyList
        s1   == IF e.source \in DOMAIN adj0 THEN s ELSE Append(s, <<>>)
        adj1 == IF e.source \in DOMAIN adj0 THEN adj0
                ELSE MapSetKey(adj0, e.source, Len(s) + 1)
        s2   == [s1 EXCEPT ![adj1[e.source]] = SetAdd(@, e.id)]
        s3   == IF e.target \in DOMAIN adj1 THEN s2 ELSE Append(s2, <<>>)
        adj3 == IF e.target \in DOMAIN adj1 THEN adj1
                ELSE MapSetKey(adj1, e.target, Len(s2) + 1)
        s4   == [s3 EXCEPT ![adj3[e.target]] = SetAdd(@, e.id)]
    IN  [sets  |-> IF g.directed THEN s2 ELSE s4,
         graph |-> [g EXCEPT !.edges = MapSetEdge(g.edges, e),
                             !.adjacencyList = IF g.directed THEN adj1 ELSE adj3]]

removeEdge(s, g, edgeId) ==
    IF edgeId \notin EdgeIds(g.edges)
    THEN [sets |-> s, graph |-> g]
    ELSE LET edge == MapGetEdge(g.edges, edgeId)
             adj  == g.adjacencyList
             s1   == IF edge.source \in DOMAIN adj
                     THEN [s EXCEPT ![adj[edge.source]] = SetDelete(@, edgeId)]
                     ELSE s
             s2   == IF edge.target \in DOMAIN adj
                     THEN [s1 EXCEPT ![adj[edge.target]] = SetDelete(@, edgeId)]
                     ELSE s1
         IN  [sets  |-> IF g.directed THEN s1 ELSE s2,
              graph |-> [g EXCEPT !.edges = MapDeleteEdges(g.edges, {edgeId})]]

(* mutant: the neighbour is always the edge's target, whatever the side *)
getNeighborsAlwaysTarget(s, g, nodeId) ==
    IF nodeId \notin DOMAIN g.adjacencyList THEN <<>>
    ELSE LET edgeIds == s[g.adjacencyList[nodeId]]
             usable(id) ==
                 /\ id \in EdgeIds(g.edges)
                 /\ \/ MapGetEdge(g.edges, id).source = nodeId
                    \/ ~g.directed /\ MapGetEdge(g.edges, id).target = nodeId
             entry(id) ==
                 LET edge == MapGetEdge(g.edges, id)
                 IN  [nodeId |-> edge.target, edgeId |-> id, weight |-> edge.weight]
             kept == SelectSeq(edgeIds, usable)
         IN  [i \in 1..Len(kept) |-> entry(kept[i])]

getNeighbors(s, g, nodeId) ==
    IF nodeId \notin DOMAIN g.adjacencyList THEN <<>>
    ELSE LET edgeIds == s[g.adjacencyList[nodeId]]
             usable(id) ==
                 /\ id \in EdgeIds(g.edges)
                 /\ \/ MapGetEdge(g.edges, id).source = nodeId
                    \/ ~g.directed /\ MapGetEdge(g.edges, id).target = nodeId
             entry(id) ==
                 LET edge == MapGetEdge(g.edges, id)
                 IN  [nodeId |-> IF edge.source = nodeId THEN edge.target ELSE edge.source,
                      edgeId |-> id,
                      weight |-> edge.weight]
             kept == SelectSeq(edgeIds, usable)
         IN  [i \in 1..Len(kept) |-> entry(kept[i])]

(* what a holder of the graph value g observes *)
Content(s, g) ==
    [nodes |-> g.nodes, edges |-> g.edges, directed |-> g.directed,
     adjacencyList |-> [n \in DOMAIN g.adjacencyList |-> s[g.adjacencyList[n]]]]

(* ---------- PriorityQueue (indices are the code's, 0-based) ---------- *)
Swap(heap, i, j) == [heap EXCEPT ![i + 1] = heap[j + 1], ![j + 1] = heap[i + 1]]

RECURSIVE bubbleUp(_, _)
bubbleUp(heap, index) ==
    IF index > 0
    THEN LET parentIndex == (index - 1) \div 2
         IN  IF heap[parentIndex + 1].priority <= heap[index + 1].priority
             THEN heap
             ELSE bubbleUp(Swap(heap, parentIndex, index), parentIndex)
    ELSE heap

(* mutant: the entry moved to the root is never sifted down *)
bubbleDownNever(heap, index) == heap

RECURSIVE bubbleDown(_, _)
bubbleDown(heap, index) ==
    LET leftChild  == 2 * index + 1
        rightChild == 2 * index + 2
        s1 == IF leftChild < Len(heap)
                 /\ heap[leftChild + 1].priority < heap[index + 1].priority
              THEN leftChild ELSE index
        smallest == IF rightChild < Len(heap)
                       /\ heap[rightChild + 1].priority < heap[s1 + 1].priority
                    THEN rightChild ELSE s1
    IN  IF smallest = index THEN heap
        ELSE bubbleDown(Swap(heap, smallest, index), smallest)

(* mutant: the new entry is appended and never sifted up *)
enqueueNoSiftUp(heap, item, priority) ==
    Append(heap, [item |-> item, priority |-> priority])

enqueue(heap, item, priority) ==
    bubbleUp(Append(heap, [item |-> item, priority |-> priority]), Len(heap))

(* the dequeued item and the heap left behind *)
dequeue(heap) ==
    IF Len(heap) = 0 THEN [item |-> Undefined, heap |-> heap]
    ELSE LET min  == heap[1]
             last == heap[Len(heap)]
             rest == SubSeq(heap, 1, Len(heap) - 1)
         IN  [item |-> min.item,
              heap |-> IF Len(rest) > 0
                       THEN bubbleDown([rest EXCEPT ![1] = last], 0)
                       ELSE rest]

toArray(heap) == [i \in 1..Len(heap) |-> [nodeId |-> heap[i].item, priority |-> heap[i].priority]]

(* ---------- helpers of the step generators ---------- *)
Infinity == 1000000

(* mutant: nodes are pushed, not unshifted: the path comes out reversed *)
RECURSIVE reconstructPathPush(_, _)
reconstructPathPush(preds, current) ==
    IF current = Null THEN <<>>
    ELSE <<current>> \o reconstructPathPush(preds,
                            IF current \in DOMAIN preds THEN preds[current] ELSE Null)

(* mutant: the walk stops at the node without predecessor and drops it *)
RECURSIVE reconstructPathSkipRoot(_, _)
reconstructPathSkipRoot(preds, current) ==
    IF current \notin DOMAIN preds \/ preds[current] = Null THEN <<>>
    ELSE Append(reconstructPathSkipRoot(preds, preds[current]), current)

RECURSIVE reconstructPath(_, _)
reconstructPath(preds, current) ==
    IF current = Null THEN <<>>
    ELSE Append(reconstructPath(preds,
                    IF current \in DOMAIN preds THEN preds[current] ELSE Null),
                current)

findEdgeId(g, nodeA, nodeB) ==
    LET hits == {i \in 1..Len(g.edges) :
                    \/ g.edges[i].source = nodeA /\ g.edges[i].target = nodeB
                    \/ ~g.directed /\ g.edges[i].source = nodeB /\ g.edges[i].target = nodeA}
    IN  IF hits = {} THEN Null
        ELSE g.edges[CHOOSE i \in hits : \A j \in hits : i <= j].id

(* the path-marking loop: st = [nodeStates, edgeStates], i is 1-based *)
RECURSIVE markPath(_, _, _, _, _)
markPath(g, src, path, i, st) ==
    IF i > Len(path) - 1 THEN st
    ELSE LET edgeId == findEdgeId(g, path[i], path[i + 1])
         IN  markPath(g, src, path, i + 1,
                [nodeStates |-> MapSetKey(st.nodeStates, path[i],
                                    IF path[i] = src THEN "start" ELSE "path"),
                 edgeStates |-> IF edgeId # Null
                                THEN MapSetKey(st.edgeStates, edgeId, "path")
                                ELSE st.edgeStates])

(* mutant: the reset loop after the neighbor loop is missing *)
resetRelaxedNever(es) == es

resetRelaxed(es) == [e \in DOMAIN es |-> IF es[e] = "relaxed" THEN "default" ELSE es[e]]

(* ---------- graphs the step generators are run on ---------- *)
MaxWeight == 3
HeavyWeight == 4
MaxH == 1

RECURSIVE addNodes(_, _, _)
addNodes(sg, nodeSeq, i) ==
    IF i > Len(nodeSeq) THEN sg
    ELSE addNodes(addNode(sg.sets, sg.graph, nodeSeq[i]), nodeSeq, i + 1)

RECURSIVE addEdges(_, _, _)
addEdges(sg, edgeSeq, i) ==
    IF i > Len(edgeSeq) THEN sg
    ELSE addEdges(addEdge(sg.sets, sg.graph, edgeSeq[i]), edgeSeq, i + 1)

BuildGraph(directed, nodeSeq, edgeSeq) ==
    addEdges(addNodes([sets |-> NoSets, graph |-> createGraph(directed)], nodeSeq, 1),
             edgeSeq, 1)

Edge(id, source, target, weight) ==
    [id |-> id, source |-> source, target |-> target, weight |-> weight]

createSampleGraph ==
    BuildGraph(FALSE, <<"A", "B", "C", "D", "E", "F">>,
        << Edge("AB", "A", "B", 4), Edge("AC", "A", "C", 2), Edge("BD", "B", "D", 5),
           Edge("CD", "C", "D", 8), Edge("CE", "C", "E", 3), Edge("DE", "D", "E", 2),
           Edge("DF", "D", "F", 6), Edge("EF", "E", "F", 3) >>)

(* the sample graph with F disconnected: removeEdge DF, then removeEdge EF *)
CutSampleGraph ==
    LET g1 == removeEdge(createSampleGraph.sets, createSampleGraph.graph, "DF")
    IN  removeEdge(g1.sets, g1.graph, "EF")

SingleNodeGraphs == {BuildGraph(d, <<"A">>, <<>>) : d \in BOOLEAN}

(* three nodes, each of AB, BC, CA absent (0) or of weight 1..MaxWeight *)
TriangleGraphs ==
    {BuildGraph(d, <<"A", "B", "C">>,
        SelectSeq(<< Edge("AB", "A", "B", w[1]), Edge("BC", "B", "C", w[2]),
                     Edge("CA", "C", "A", w[3]) >>, LAMBDA e : e.weight > 0)) :
        d \in BOOLEAN, w \in [1..3 -> 0..MaxWeight]}

(* four nodes, five edges, each light (1) or heavy *)
DiamondGraphs ==
    {BuildGraph(d, <<"A", "B", "C", "D">>,
        << Edge("AC", "A", "C", w[1]), Edge("AB", "A", "B", w[2]),
           Edge("AD", "A", "D", w[3]), Edge("BC", "B", "C", w[4]),
           Edge("CD", "C", "D", w[5]) >>) :
        d \in BOOLEAN, w \in [1..5 -> {1, HeavyWeight}]}

RunGraphs ==
    {createSampleGraph, CutSampleGraph} \cup SingleNodeGraphs
        \cup TriangleGraphs \cup DiamondGraphs

ZeroHeuristic(g) == [n \in g.nodes |-> 0]

(* h(n, target) as a function of n: 0 everywhere, or raised at one node *)
Heuristics(g) ==
    {ZeroHeuristic(g)} \cup
    {[n \in g.nodes |-> IF n = m THEN k ELSE 0] : m \in g.nodes, k \in 1..MaxH}

(* each engine is run twice on the same inputs; astar needs a target *)
Plans(target) ==
    IF target = Null THEN {<<"dijkstra", "dijkstra">>}
    ELSE {<<"dijkstra", "dijkstra", "astar", "astar">>}

(* ---------- state ---------- *)
VARIABLES
    sets,         \* heap of Set objects: reference -> content
    graph,        \* the current graph value
    prevGraph,    \* the graph value passed to the last edit operation
    prevContent,  \* what prevGraph contained when it was passed in
    opCount,      \* number of edit operations applied
    lastOp,       \* the last edit operation and its argument
    plan,         \* the engines run one after another on the same inputs
    runNo,        \* index of the current run in plan
    sourceId, targetId, heuristic,
    pc,           \* position of the generator between two yields
    thrown,       \* the error the generator call threw, Null if none
    distances,    \* distances (dijkstra) / gScore (astar)
    fScore, predecessors, visited, nodeStates, edgeStates,
    pq,           \* pq (dijkstra) / openSet (astar): the heap array
    inOpenSet,
    currentId, neighbors,
    idx,          \* position in neighbors of the entry last taken by the for loop
    viaEdge,      \* history: the edge whose relaxation set predecessors[n]
    steps,        \* the steps yielded by the current run
    prevSteps,    \* the steps yielded by the run before it
    prevPq,       \* PriorityQueue alone: the heap before the last call
    dequeued,     \* PriorityQueue alone: what the last dequeue returned
    hookSteps,    \* useAlgorithmVisualizer: the steps state
    stepsRef,     \* useAlgorithmVisualizer: stepsRef.current
    currentStepIndex, isRunning, isPaused,
    timerSet,     \* useAlgorithmVisualizer: a timeout of timerRef is pending
    lastCall,     \* the control last used on the visualizer
    clicks,       \* number of controls used so far
    markers, exploredNodes,   \* useMapRouting: its state
    route,        \* useMapRouting: <<>> for null, else <<the RouteData>>
    pending,      \* useMapRouting: the fetchRoute calls awaiting their response
    requests,     \* useMapRouting: number of fetchRoute calls so far
    current       \* the fetchRoute call no clearAll or swapMarkers came after, or 0

editVars == <<prevGraph, prevContent, opCount, lastOp>>

queueVars == <<prevPq, dequeued>>

playerVars == <<hookSteps, stepsRef, currentStepIndex, isRunning, isPaused, timerSet,
                lastCall, clicks>>

mapVars == <<markers, route, exploredNodes, pending, requests, current>>

inputVars == <<sets, graph, plan, sourceId, targetId>>

localVars == <<distances, fScore, predecessors, visited, nodeStates, edgeStates,
               pq, inOpenSet, currentId, neighbors, idx, viaEdge>>

runVars == <<plan, runNo, sourceId, targetId, heuristic, pc, thrown, distances, fScore,
             predecessors, visited, nodeStates, edgeStates, pq, inOpenSet,
             currentId, neighbors, idx, viaEdge, steps, prevSteps>>

vars == <<sets, graph, editVars, runVars, queueVars, playerVars, mapVars>>

alg == plan[runNo]

(* ---------- graph edits, one after another from createGraph ---------- *)
EditEdges ==
    [id : EditEdgeIds, source : EditNodeIds, target : EditNodeIds, weight : EditWeights]

NoRun ==
    /\ plan = <<"dijkstra">> /\ runNo = 1
    /\ sourceId = Null /\ targetId = Null /\ heuristic = <<>>
    /\ pc = "idle" /\ thrown = Null
    /\ distances = <<>> /\ fScore = <<>> /\ predecessors = <<>> /\ visited = {}
    /\ nodeStates = <<>> /\ edgeStates = <<>> /\ pq = <<>> /\ inOpenSet = {}
    /\ currentId = Null /\ neighbors = <<>> /\ idx = 0 /\ viaEdge = <<>>
    /\ steps = <<>> /\ prevSteps = <<>>

NoQueueCall == prevPq = <<>> /\ dequeued = Null

(* useAlgorithmVisualizer as useState / useRef initialise it *)
NoPlayback ==
    /\ hookSteps = <<>> /\ stepsRef = <<>>
    /\ currentStepIndex = -1
    /\ isRunning = FALSE /\ isPaused = FALSE
    /\ timerSet = FALSE
    /\ lastCall = Null /\ clicks = 0

(* useMapRouting as useState initialises it *)
NoRouting ==
    /\ markers = <<>> /\ route = <<>> /\ exploredNodes = <<>>
    /\ pending = {} /\ requests = 0 /\ current = 0

NoEdit ==
    /\ prevGraph = graph
    /\ prevContent = Content(sets, graph)
    /\ opCount = 0
    /\ lastOp = [name |-> "createGraph", arg |-> Null]

InitEdit ==
    /\ sets = NoSets
    /\ graph \in {createGraph(d) : d \in BOOLEAN}
    /\ NoEdit
    /\ NoRun
    /\ NoQueueCall
    /\ NoPlayback
    /\ NoRouting

Apply(result, name, arg) ==
    /\ opCount < MaxOps
    /\ lastOp' = [name |-> name, arg |-> arg]
    /\ opCount' = opCount + 1
    /\ prevGraph' = graph
    /\ prevContent' = Content(sets, graph)
    /\ sets' = result.sets
    /\ graph' = result.graph
    /\ UNCHANGED <<runVars, queueVars, playerVars, mapVars>>

AddNode == \E n \in EditNodeIds : Apply(addNode(sets, graph, n), "addNode", n)

RemoveNode == \E n \in EditNodeIds : Apply(removeNode(sets, graph, n), "removeNode", n)

AddEdge == \E e \in EditEdges : Apply(addEdge(sets, graph, e), "addEdge", e.id)

RemoveEdge == \E id \in EditEdgeIds : Apply(removeEdge(sets, graph, id), "removeEdge", id)

NextEdit == AddNode \/ RemoveNode \/ AddEdge \/ RemoveEdge

SpecEdit == InitEdit /\ [][NextEdit]_vars

(* ---------- a PriorityQueue on its own: any calls, in any order ---------- *)
MaxQueue == 5
MaxPriority == 2
QueueItems == {"A", "B"}

InitQueue ==
    /\ sets = NoSets
    /\ graph = createGraph(FALSE)
    /\ NoEdit
    /\ NoRun
    /\ NoQueueCall
    /\ NoPlayback
    /\ NoRouting

notQueueVars ==
    <<sets, graph, editVars, playerVars, mapVars, plan, runNo, sourceId, targetId, heuristic, pc, thrown,
      distances, fScore, predecessors, visited, nodeStates, edgeStates, inOpenSet,
      currentId, neighbors, idx, viaEdge, steps, prevSteps>>

Enqueue ==
    /\ Len(pq) < MaxQueue
    /\ \E item \in QueueItems, priority \in 0..MaxPriority :
           pq' = enqueue(pq, item, priority)
    /\ prevPq' = pq
    /\ dequeued' = Null
    /\ UNCHANGED notQueueVars

Dequeue ==
    /\ pq' = dequeue(pq).heap
    /\ dequeued' = dequeue(pq).item
    /\ prevPq' = pq
    /\ UNCHANGED notQueueVars

NextQueue == Enqueue \/ Dequeue

SpecQueue == InitQueue /\ [][NextQueue]_vars

(* ---------- the step generators ---------- *)
Step(type, cur, d, p, v, q, ns, es) ==
    [type |-> type, currentNode |-> cur, distances |-> d, predecessors |-> p,
     visited |-> v, queue |-> q, nodeStates |-> ns, edgeStates |-> es]

EdgeStep(type, cur, d, p, v, q, ns, es, ce) ==
    [type |-> type, currentNode |-> cur, distances |-> d, predecessors |-> p,
     visited |-> v, queue |-> q, nodeStates |-> ns, edgeStates |-> es,
     currentEdge |-> ce]

PathStep(type, cur, d, p, v, q, ns, es, path, total) ==
    [type |-> type, currentNode |-> cur, distances |-> d, predecessors |-> p,
     visited |-> v, queue |-> q, nodeStates |-> ns, edgeStates |-> es,
     shortestPath |-> path, totalDistance |-> total]

(* mutant: one step object is reused, every yield refills and re-emits it *)
YieldSameObject(step) == steps' = [i \in 1..(Len(steps) + 1) |-> step]

(* the step object is built from fresh copies (new Map, new Set, toArray) *)
Yield(step) == steps' = Append(steps, step)

(* the generator is called and has not run yet *)
FreshCall ==
    /\ pc = "start" /\ thrown = Null
    /\ distances = <<>> /\ fScore = <<>> /\ predecessors = <<>> /\ visited = {}
    /\ nodeStates = <<>> /\ edgeStates = <<>> /\ pq = <<>> /\ inOpenSet = {}
    /\ currentId = Null /\ neighbors = <<>> /\ idx = 0 /\ viaEdge = <<>>
    /\ steps = <<>> /\ prevSteps = <<>>

InitRun ==
    /\ \E sg \in RunGraphs : sets = sg.sets /\ graph = sg.graph
    /\ sourceId \in graph.nodes
    /\ targetId \in graph.nodes \cup {Null}
    /\ plan \in Plans(targetId)
    /\ runNo = 1
    /\ heuristic = ZeroHeuristic(graph)
    /\ FreshCall
    /\ NoEdit
    /\ NoQueueCall
    /\ NoPlayback
    /\ NoRouting

(* mutant: the visited set outlives the generator call *)
LeftoverVisited == visited

(* const visited = new Set<string>() *)
NewVisited == {}

(* throw new Error(`Target node ${targetId} not found in graph`) *)
NodeNotFound == "Target node not found in graph"

(* the shipped heuristics read nodeA.x / nodeA.lat of an undefined node *)
TypeError == "TypeError"

(* what the generator body throws before its first yield, Null if nothing *)
GenError ==
    IF alg = "astar" /\ targetId \notin graph.nodes THEN NodeNotFound
    ELSE IF alg = "astar" /\ sourceId \notin graph.nodes THEN TypeError
    ELSE Null

Throw ==
    /\ pc = "start"
    /\ GenError # Null
    /\ thrown' = GenError
    /\ pc' = "done"
    /\ UNCHANGED <<sets, graph, editVars, queueVars, playerVars, mapVars, plan, runNo, sourceId, targetId,
                   heuristic, localVars, steps, prevSteps>>

(* the generator body up to its first yield *)
GenInit ==
    /\ pc = "start"
    /\ GenError = Null
    /\ LET hValue == heuristic[sourceId]
           d0  == [n \in graph.nodes |-> Infinity]
           ns0 == [n \in graph.nodes |-> "default"]
           ns1 == IF alg = "astar" THEN MapSetKey(ns0, sourceId, "start")
                  ELSE [n \in graph.nodes |-> IF n = sourceId THEN "start" ELSE "default"]
           ns  == IF alg = "astar" \/ targetId # Null
                  THEN MapSetKey(ns1, targetId, "end") ELSE ns1
           d   == IF alg = "astar" THEN MapSetKey(d0, sourceId, 0)
                  ELSE [n \in graph.nodes |-> IF n = sourceId THEN 0 ELSE Infinity]
           p   == [n \in graph.nodes |-> Null]
           es  == [e \in EdgeIds(graph.edges) |-> "default"]
           q   == enqueue(<<>>, sourceId, IF alg = "astar" THEN hValue ELSE 0)
       IN  /\ distances' = d
           /\ fScore' = IF alg = "astar" THEN MapSetKey(d0, sourceId, hValue) ELSE <<>>
           /\ predecessors' = p
           /\ visited' = NewVisited
           /\ nodeStates' = ns
           /\ edgeStates' = es
           /\ pq' = q
           /\ inOpenSet' = IF alg = "astar" THEN {sourceId} ELSE {}
           /\ viaEdge' = [n \in graph.nodes |-> Null]
           /\ Yield(Step("init", Null, d, p, NewVisited, toArray(q), ns, es))
    /\ pc' = "loop"
    /\ currentId' = Null /\ neighbors' = <<>> /\ idx' = 0
    /\ UNCHANGED <<sets, graph, editVars, queueVars, playerVars, mapVars, thrown, plan, runNo, sourceId, targetId,
                   heuristic, prevSteps>>

(* mutant: no dequeued entry is taken for stale *)
NeverStale(item) == FALSE

(* if (visited.has(currentId)) continue *)
IsStale(item) == item \in visited

(* a dequeued entry whose node is already visited: continue *)
SkipStale ==
    /\ pc = "loop"
    /\ Len(pq) > 0
    /\ LET r == dequeue(pq)
       IN  /\ IsStale(r.item)
           /\ pq' = r.heap
           /\ inOpenSet' = IF alg = "astar" THEN inOpenSet \ {r.item} ELSE inOpenSet
    /\ UNCHANGED <<sets, graph, editVars, queueVars, playerVars, mapVars, thrown, plan, runNo, sourceId, targetId, heuristic,
                   pc, distances, fScore, predecessors, visited, nodeStates,
                   edgeStates, currentId, neighbors, idx, viaEdge, steps, prevSteps>>

SelectNode ==
    /\ pc = "loop"
    /\ Len(pq) > 0
    /\ LET r  == dequeue(pq)
           ns == IF r.item # sourceId /\ r.item # targetId
                 THEN MapSetKey(nodeStates, r.item, "current") ELSE nodeStates
       IN  /\ ~IsStale(r.item)
           /\ pq' = r.heap
           /\ inOpenSet' = IF alg = "astar" THEN inOpenSet \ {r.item} ELSE inOpenSet
           /\ currentId' = r.item
           /\ nodeStates' = ns
           /\ Yield(Step("select-node", r.item, distances, predecessors, visited,
                         toArray(r.heap), ns, edgeStates))
    /\ pc' = "selected"
    /\ UNCHANGED <<sets, graph, editVars, queueVars, playerVars, mapVars, thrown, plan, runNo, sourceId, targetId, heuristic,
                   distances, fScore, predecessors, visited, edgeStates, neighbors,
                   idx, viaEdge, prevSteps>>

PathFound ==
    /\ pc = "selected"
    /\ targetId # Null /\ currentId = targetId
    /\ LET path == reconstructPath(predecessors, targetId)
           v    == IF alg = "dijkstra" THEN visited \cup {currentId} ELSE visited
           ns0  == IF alg = "dijkstra" THEN MapSetKey(nodeStates, currentId, "end")
                                       ELSE nodeStates
           st   == markPath(graph, sourceId, path, 1,
                            [nodeStates |-> ns0, edgeStates |-> edgeStates])
           ns   == IF alg = "astar" THEN MapSetKey(st.nodeStates, targetId, "end")
                                    ELSE st.nodeStates
       IN  /\ visited' = v
           /\ nodeStates' = ns
           /\ edgeStates' = st.edgeStates
           /\ Yield(PathStep("path-found", currentId, distances, predecessors, v,
                             toArray(pq), ns, st.edgeStates, path,
                             MapGet(distances, targetId)))
    /\ pc' = "done"
    /\ UNCHANGED <<sets, graph, editVars, queueVars, playerVars, mapVars, thrown, plan, runNo, sourceId, targetId, heuristic,
                   distances, fScore, predecessors, pq, inOpenSet, currentId,
                   neighbors, idx, viaEdge, prevSteps>>

(* add the current node to visited; only dijkstra yields mark-visited *)
MarkVisited ==
    /\ pc = "selected"
    /\ ~(targetId # Null /\ currentId = targetId)
    /\ LET v  == visited \cup {currentId}
           ns == IF currentId # sourceId /\ (alg = "astar" \/ currentId # targetId)
                 THEN MapSetKey(nodeStates, currentId, "visited") ELSE nodeStates
       IN  /\ visited' = v
           /\ nodeStates' = ns
           /\ IF alg = "dijkstra"
              THEN Yield(Step("mark-visited", currentId, distances, predecessors, v,
                              toArray(pq), ns, edgeStates))
              ELSE steps' = steps
    /\ neighbors' = getNeighbors(sets, graph, currentId)
    /\ idx' = 0
    /\ pc' = "marked"
    /\ UNCHANGED <<sets, graph, editVars, queueVars, playerVars, mapVars, thrown, plan, runNo, sourceId, targetId, heuristic,
                   distances, fScore, predecessors, edgeStates, pq, inOpenSet,
                   currentId, viaEdge, prevSteps>>

InNeighborLoop == pc \in {"marked", "relaxed", "skipped"}

(* edgeStates once the statement after a skip-edge yield has run *)
EdgeStatesResumed ==
    IF pc = "skipped" THEN MapSetKey(edgeStates, neighbors[idx].edgeId, "default")
    ELSE edgeStates

(* the entries the for loop does not `continue` over *)
Pending == {j \in (idx + 1)..Len(neighbors) : neighbors[j].nodeId \notin visited}

(* mutant: the comparison is gone, every examined edge relaxes *)
ImprovesAlways(newDist, oldDist) == TRUE

(* mutant: an equal tentative distance relaxes too *)
ImprovesOrTies(newDist, oldDist) == newDist <= oldDist

(* if (newDist < oldDist) / if (tentativeG < oldG) *)
Improves(newDist, oldDist) == newDist < oldDist

(* mutant: the tentative distance is the edge weight alone *)
CurrentEdgeWeightOnly(j, relaxed) ==
    LET nb      == neighbors[j]
        oldDist == distances[nb.nodeId]
        newDist == nb.weight
    IN  [edgeId |-> nb.edgeId, from |-> currentId, to |-> nb.nodeId,
         weight |-> nb.weight, oldDistance |-> oldDist, newDistance |-> newDist,
         wasRelaxed |-> relaxed]

(* the currentEdge field; oldDist and newDist as the loop body computes them *)
CurrentEdge(j, relaxed) ==
    LET nb      == neighbors[j]
        oldDist == distances[nb.nodeId]
        newDist == distances[currentId] + nb.weight
    IN  [edgeId |-> nb.edgeId, from |-> currentId, to |-> nb.nodeId,
         weight |-> nb.weight, oldDistance |-> oldDist, newDistance |-> newDist,
         wasRelaxed |-> relaxed]

ExamineEdge ==
    /\ InNeighborLoop
    /\ Pending # {}
    /\ LET j  == CHOOSE k \in Pending : \A m \in Pending : k <= m
           es == MapSetKey(EdgeStatesResumed, neighbors[j].edgeId, "considering")
           ce == CurrentEdge(j, FALSE)
       IN  /\ idx' = j
           /\ edgeStates' = es
           /\ Yield(EdgeStep("examine-edge", currentId, distances, predecessors,
                             visited, toArray(pq), nodeStates, es,
                             [ce EXCEPT !.wasRelaxed = Improves(ce.newDistance, ce.oldDistance)]))
    /\ pc' = "examined"
    /\ UNCHANGED <<sets, graph, editVars, queueVars, playerVars, mapVars, thrown, plan, runNo, sourceId, targetId, heuristic,
                   distances, fScore, predecessors, visited, nodeStates, pq,
                   inOpenSet, currentId, neighbors, viaEdge, prevSteps>>

RelaxEdge ==
    /\ pc = "examined"
    /\ LET ce == CurrentEdge(idx, TRUE)
           h  == heuristic[ce.to]
           f  == ce.newDistance + h
           d  == MapSetKey(distances, ce.to, ce.newDistance)
           p  == MapSetKey(predecessors, ce.to, currentId)
           es == MapSetKey(edgeStates, ce.edgeId, "relaxed")
           q  == IF alg = "dijkstra" THEN enqueue(pq, ce.to, ce.newDistance)
                 ELSE IF ce.to \notin inOpenSet THEN enqueue(pq, ce.to, f)
                 ELSE pq
           ns == IF ce.to # targetId THEN MapSetKey(nodeStates, ce.to, "in-queue")
                 ELSE nodeStates
       IN  /\ Improves(ce.newDistance, ce.oldDistance)
           /\ distances' = d
           /\ predecessors' = p
           /\ fScore' = IF alg = "astar" THEN MapSetKey(fScore, ce.to, f) ELSE fScore
           /\ edgeStates' = es
           /\ pq' = q
           /\ inOpenSet' = IF alg = "astar" THEN inOpenSet \cup {ce.to} ELSE inOpenSet
           /\ nodeStates' = ns
           /\ viaEdge' = MapSetKey(viaEdge, ce.to, ce.edgeId)
           /\ Yield(EdgeStep("relax-edge", currentId, d, p, visited, toArray(q),
                             ns, es, ce))
    /\ pc' = "relaxed"
    /\ UNCHANGED <<sets, graph, editVars, queueVars, playerVars, mapVars, thrown, plan, runNo, sourceId, targetId, heuristic,
                   visited, currentId, neighbors, idx, prevSteps>>

SkipEdge ==
    /\ pc = "examined"
    /\ LET ce == CurrentEdge(idx, FALSE)
           es == MapSetKey(edgeStates, ce.edgeId, "rejected")
       IN  /\ ~Improves(ce.newDistance, ce.oldDistance)
           /\ edgeStates' = es
           /\ Yield(EdgeStep("skip-edge", currentId, distances, predecessors,
                             visited, toArray(pq), nodeStates, es, ce))
    /\ pc' = "skipped"
    /\ UNCHANGED <<sets, graph, editVars, queueVars, playerVars, mapVars, thrown, plan, runNo, sourceId, targetId, heuristic,
                   distances, fScore, predecessors, visited, nodeStates, pq,
                   inOpenSet, currentId, neighbors, idx, viaEdge, prevSteps>>

(* the for loop is exhausted: reset the relaxed edges, back to the while test *)
EndNeighbors ==
    /\ InNeighborLoop
    /\ Pending = {}
    /\ edgeStates' = resetRelaxed(EdgeStatesResumed)
    /\ idx' = Len(neighbors)
    /\ pc' = "loop"
    /\ UNCHANGED <<sets, graph, editVars, queueVars, playerVars, mapVars, thrown, plan, runNo, sourceId, targetId, heuristic,
                   distances, fScore, predecessors, visited, nodeStates, pq,
                   inOpenSet, currentId, neighbors, viaEdge, steps, prevSteps>>

(* the queue is empty: the terminal step after the while loop *)
(* mutant: the negation of visited.has(targetId) is dropped *)
TerminalTypeNegationDropped ==
    IF alg = "astar" THEN "no-path"
    ELSE IF targetId # Null /\ targetId \in visited THEN "no-path"
    ELSE "complete"

(* mutant: the test of the target after the loop is gone *)
TerminalTypeTargetIgnored == IF alg = "astar" THEN "no-path" ELSE "complete"

TerminalType ==
    IF alg = "astar" THEN "no-path"
    ELSE IF targetId # Null /\ targetId \notin visited THEN "no-path"
    ELSE "complete"

NoPath ==
    /\ pc = "loop"
    /\ Len(pq) = 0
    /\ TerminalType = "no-path"
    /\ Yield(Step("no-path", Null, distances, predecessors, visited, <<>>,
                  nodeStates, edgeStates))
    /\ pc' = "done"
    /\ UNCHANGED <<sets, graph, editVars, queueVars, playerVars, mapVars, thrown, plan, runNo, sourceId, targetId, heuristic,
                   localVars, prevSteps>>

Complete ==
    /\ pc = "loop"
    /\ Len(pq) = 0
    /\ TerminalType = "complete"
    /\ Yield(Step("complete", Null, distances, predecessors, visited, <<>>,
                  nodeStates, edgeStates))
    /\ pc' = "done"
    /\ UNCHANGED <<sets, graph, editVars, queueVars, playerVars, mapVars, thrown, plan, runNo, sourceId, targetId, heuristic,
                   localVars, prevSteps>>

(* the caller materialises the sequence and calls the next generator *)
NextRun ==
    /\ pc = "done"
    /\ runNo < Len(plan)
    /\ runNo' = runNo + 1
    /\ heuristic' \in IF plan[runNo + 1] = "astar" /\ alg = "dijkstra"
                      THEN Heuristics(graph) ELSE {heuristic}
    /\ prevSteps' = steps
    /\ steps' = <<>>
    /\ pc' = "start"
    /\ thrown' = Null
    /\ UNCHANGED <<sets, graph, editVars, queueVars, playerVars, mapVars, plan, sourceId, targetId, localVars>>

NextRunStep ==
    \/ GenInit \/ SkipStale \/ SelectNode \/ PathFound \/ MarkVisited
    \/ ExamineEdge \/ RelaxEdge \/ SkipEdge \/ EndNeighbors
    \/ NoPath \/ Complete \/ NextRun

SpecRun == InitRun /\ [][NextRunStep]_vars

(* ---------- one generateDijkstraSteps call, iterated to its end ---------- *)
InitDijkstra ==
    /\ \E sg \in RunGraphs : sets = sg.sets /\ graph = sg.graph
    /\ sourceId \in graph.nodes
    /\ targetId \in graph.nodes \cup {Null}
    /\ plan = <<"dijkstra">>
    /\ runNo = 1
    /\ heuristic = ZeroHeuristic(graph)
    /\ FreshCall
    /\ NoEdit
    /\ NoQueueCall
    /\ NoPlayback
    /\ NoRouting

NextDijkstra ==
    \/ GenInit \/ SkipStale \/ SelectNode \/ PathFound \/ MarkVisited
    \/ ExamineEdge \/ RelaxEdge \/ SkipEdge \/ EndNeighbors
    \/ NoPath \/ Complete

(* the caller's for ... of takes the generator's next step until it is done *)
SpecDijkstra == InitDijkstra /\ [][NextDijkstra]_vars /\ WF_vars(NextDijkstra)

(* ---------- one generator call on inputs the caller did not vet ---------- *)
MaxCallWeight == 1

(* an id that no graph holds *)
MissingId == "Z"

(* no node at all, or three nodes with each of AB, BC, CA absent or of a *)
(* weight in -MaxCallWeight..MaxCallWeight                               *)
CallGraphs ==
    {[sets |-> NoSets, graph |-> createGraph(d)] : d \in BOOLEAN} \cup
    {BuildGraph(d, <<"A", "B", "C">>,
        SelectSeq(<< Edge("AB", "A", "B", w[1]), Edge("BC", "B", "C", w[2]),
                     Edge("CA", "C", "A", w[3]) >>,
                  LAMBDA e : e.weight <= MaxCallWeight)) :
        d \in BOOLEAN, w \in [1..3 -> (0 - MaxCallWeight)..(MaxCallWeight + 1)]}

InitCall ==
    /\ \E sg \in CallGraphs : sets = sg.sets /\ graph = sg.graph
    /\ sourceId \in graph.nodes \cup {MissingId}
    /\ targetId \in graph.nodes \cup {MissingId, Null}
    /\ plan \in {<<"dijkstra">>, <<"astar">>}
    /\ runNo = 1
    /\ heuristic = ZeroHeuristic(graph)
    /\ FreshCall
    /\ NoEdit
    /\ NoQueueCall
    /\ NoPlayback
    /\ NoRouting

NextCall ==
    \/ GenInit \/ Throw \/ SkipStale \/ SelectNode \/ PathFound \/ MarkVisited
    \/ ExamineEdge \/ RelaxEdge \/ SkipEdge \/ EndNeighbors
    \/ NoPath \/ Complete

SpecCall == InitCall /\ [][NextCall]_vars

(* ---------- reference notions the claims are stated with ---------- *)
(* the moves the edges map allows from node u, by the graph's directedness *)
Moves(g, u) ==
    {[to |-> g.edges[i].target, weight |-> g.edges[i].weight] :
        i \in {j \in 1..Len(g.edges) : g.edges[j].source = u}}
    \cup
    {[to |-> g.edges[i].source, weight |-> g.edges[i].weight] :
        i \in {j \in 1..Len(g.edges) : ~g.directed /\ g.edges[j].target = u}}

(* total weights of the simple paths from `from` to `to` avoiding `seen` *)
RECURSIVE PathCosts(_, _, _, _)
PathCosts(g, from, to, seen) ==
    IF from = to THEN {0}
    ELSE UNION {{m.weight + c : c \in PathCosts(g, m.to, to, seen \cup {m.to})} :
                    m \in {x \in Moves(g, from) : x.to \notin seen}}

MinCost(g, from, to) ==
    LET costs == PathCosts(g, from, to, {from})
    IN  IF costs = {} THEN Infinity
        ELSE CHOOSE c \in costs : \A d \in costs : c <= d

Admissible(g, h, target) == \A n \in g.nodes : h[n] <= MinCost(g, n, target)

Consistent(g, h) ==
    \A u \in g.nodes : \A m \in Moves(g, u) :
        m.to \in g.nodes => h[u] <= m.weight + h[m.to]

Traversable(g, e, a, b) ==
    \/ e.source = a /\ e.target = b
    \/ ~g.directed /\ e.source = b /\ e.target = a

LastStep == steps[Len(steps)]

Types(ss) == [i \in 1..Len(ss) |-> ss[i].type]

RunDone == pc = "done"

(* ---------- claims ---------- *)

(* C1: in every step of a Dijkstra run on a graph with positive weights,   *)
(* each node of the step's visited set has a recorded distance equal to    *)
(* the minimum total weight over all paths from the source to it.          *)
C1_VisitedDistanceMinimal ==
    (alg = "dijkstra" /\ Len(steps) > 0) =>
        \A n \in LastStep.visited :
            LastStep.distances[n] = MinCost(graph, sourceId, n)

(* a visited node whose distance was lowered from a finite value *)
C1_Witness ==
    /\ alg = "dijkstra" /\ Len(steps) > 0
    /\ \E i \in 1..Len(steps) :
          /\ steps[i].type = "relax-edge"
          /\ steps[i].currentEdge.oldDistance < Infinity
          /\ steps[i].currentEdge.to \in LastStep.visited

(* C2: with positive weights, a reachable target and an admissible and     *)
(* consistent heuristic, the totalDistance of the path-found step of an    *)
(* A* run is the minimum total weight over all source-to-target paths.     *)
C2_AStarOptimal ==
    (/\ alg = "astar" /\ Len(steps) > 0 /\ LastStep.type = "path-found"
     /\ Admissible(graph, heuristic, targetId)
     /\ Consistent(graph, heuristic)) =>
        LastStep.totalDistance = MinCost(graph, sourceId, targetId)

(* C3: a path-found step's shortestPath starts with the source, ends with  *)
(* the target, every consecutive pair is joined by an edge traversable in  *)
(* that direction, and totalDistance is the sum of the weights of the      *)
(* edges along the predecessor chain that produced the path.               *)
C3_PathConsistent ==
    (Len(steps) > 0 /\ LastStep.type = "path-found") =>
        LET path == LastStep.shortestPath
            via(i) == MapGetEdge(graph.edges, viaEdge[path[i + 1]])
            RECURSIVE weightFrom(_)
            weightFrom(i) ==
                IF i > Len(path) - 1 THEN 0 ELSE via(i).weight + weightFrom(i + 1)
        IN  /\ Len(path) > 0
            /\ path[1] = sourceId
            /\ path[Len(path)] = targetId
            /\ \A i \in 1..(Len(path) - 1) :
                  /\ viaEdge[path[i + 1]] \in EdgeIds(graph.edges)
                  /\ Traversable(graph, via(i), path[i], path[i + 1])
            /\ LastStep.totalDistance = weightFrom(1)

(* a path of at least two edges found by A* *)
C3_Witness ==
    /\ alg = "astar" /\ Len(steps) > 0 /\ LastStep.type = "path-found"
    /\ Len(LastStep.shortestPath) >= 3

(* C4: with an admissible and consistent heuristic the visited set of the  *)
(* final A* step is a subset of the visited set of the final Dijkstra step *)
(* on the same graph, source and target.                                   *)
C4_AStarVisitsSubset ==
    (/\ RunDone /\ alg = "astar" /\ plan[runNo - 1] = "dijkstra"
     /\ Admissible(graph, heuristic, targetId)
     /\ Consistent(graph, heuristic)) =>
        LastStep.visited \subseteq prevSteps[Len(prevSteps)].visited

IsSampleRun(sg) ==
    /\ sets = sg.sets /\ graph = sg.graph
    /\ sourceId = "A" /\ targetId = "F" /\ alg = "dijkstra" /\ RunDone

(* C5: on the sample graph, Dijkstra from A with target F ends with a      *)
(* path-found step of totalDistance 8 and shortestPath [A, C, E, F].       *)
C5_SampleScenario ==
    IsSampleRun(createSampleGraph) =>
        /\ LastStep.type = "path-found"
        /\ LastStep.totalDistance = 8
        /\ LastStep.shortestPath = <<"A", "C", "E", "F">>

C5_Witness == IsSampleRun(createSampleGraph)

(* C6: on the sample graph without DF and EF, Dijkstra from A with target  *)
(* F ends with a no-path step and yields no path-found step.               *)
C6_DisconnectedScenario ==
    IsSampleRun(CutSampleGraph) =>
        /\ LastStep.type = "no-path"
        /\ \A i \in 1..Len(steps) : steps[i].type # "path-found"

C6_Witness == IsSampleRun(CutSampleGraph) /\ Len(steps) > 3

(* C7: on a graph with a single node n and no edges, a run with source =   *)
(* target = n yields init, select-node for n, then path-found with         *)
(* totalDistance 0 and shortestPath [n], and no edge step (both engines).  *)
IsSingleNodeRun ==
    /\ Cardinality(graph.nodes) = 1 /\ Len(graph.edges) = 0
    /\ targetId = sourceId /\ RunDone

C7_SingleNodeScenario ==
    IsSingleNodeRun =>
        /\ Types(steps) = <<"init", "select-node", "path-found">>
        /\ steps[2].currentNode = sourceId
        /\ LastStep.totalDistance = 0
        /\ LastStep.shortestPath = <<sourceId>>

C7_Witness == IsSingleNodeRun /\ alg = "astar"

(* C8: two independent runs of the same engine on the same graph, source,  *)
(* target and heuristic yield identical step sequences: the first run      *)
(* leaves nothing behind that changes the second.                          *)
C8_Deterministic ==
    (RunDone /\ runNo > 1 /\ plan[runNo - 1] = alg) => steps = prevSteps

(* a second A* run with relaxations and a rejected edge has finished *)
C8_Witness ==
    /\ RunDone /\ runNo > 1 /\ plan[runNo - 1] = alg /\ alg = "astar"
    /\ \E i \in 1..Len(steps) : steps[i].type = "skip-edge"
    /\ \E i \in 1..Len(steps) : steps[i].type = "relax-edge"

(* C9: addNode, removeNode, addEdge and removeEdge leave the graph value   *)
(* that was passed in unchanged: after the call its nodes, edges and every *)
(* adjacency set contain exactly what they contained before the call.      *)
C9_InputUnchanged == Content(sets, prevGraph) = prevContent

(* C10: in the graph returned after any sequence of edits from createGraph *)
(* every edge id in an adjacency set is a key of the edges map, and every  *)
(* edge's id is in the adjacency set of its source and, when undirected,   *)
(* of its target.                                                          *)
C10_AdjacencyConsistent ==
    /\ \A n \in DOMAIN graph.adjacencyList :
          Range(sets[graph.adjacencyList[n]]) \subseteq EdgeIds(graph.edges)
    /\ \A i \in 1..Len(graph.edges) :
          LET e == graph.edges[i]
              inAdj(n) == /\ n \in DOMAIN graph.adjacencyList
                          /\ e.id \in Range(sets[graph.adjacencyList[n]])
          IN  inAdj(e.source) /\ (~graph.directed => inAdj(e.target))

(* the adjacency index derived from the edges map: the ids of the edges    *)
(* that leave n, and in an undirected graph also of those that enter it    *)
DerivedAdjacency(g, n) ==
    {g.edges[i].id : i \in {j \in 1..Len(g.edges) :
                               \/ g.edges[j].source = n
                               \/ ~g.directed /\ g.edges[j].target = n}}

(* C11: after any sequence of edits, addEdge with the id of an existing    *)
(* edge but other endpoints included, an edge id is in adjacency[n] if and *)
(* only if n is that edge's source or, in an undirected graph, its target. *)
C11_AdjacencyExact ==
    \A n \in graph.nodes \cup DOMAIN graph.adjacencyList \cup EditNodeIds :
        (IF n \in DOMAIN graph.adjacencyList
         THEN Range(sets[graph.adjacencyList[n]]) ELSE {})
            = DerivedAdjacency(graph, n)

(* C12: after any sequence of addNode, removeNode, addEdge and removeEdge  *)
(* the source and the target of every edge of the edges map are keys of    *)
(* the nodes map, also when addEdge was given an endpoint never added.     *)
C12_NoDanglingEndpoints ==
    \A i \in 1..Len(graph.edges) :
        graph.edges[i].source \in graph.nodes /\ graph.edges[i].target \in graph.nodes

(* edge e has n as its source or its target *)
Incident(e, n) == e.source = n \/ e.target = n

NotIncidentTo(n, edgesSeq) ==
    LET keep(e) == ~Incident(e, n) IN SelectSeq(edgesSeq, keep)

(* C13: removeNode(g, n) returns a graph with no node n, no adjacency      *)
(* entry for n, no edge whose source or target is n and no adjacency set   *)
(* holding the id of a removed edge; every other node and every edge not   *)
(* incident to n is retained unchanged; when n is not a node of g the      *)
(* result has the nodes, edges and adjacency of g.                         *)
C13_RemoveNodeCascades ==
    lastOp.name = "removeNode" =>
        LET n       == lastOp.arg
            pre     == prevContent
            post    == Content(sets, graph)
            removed == EdgeIds(pre.edges) \ EdgeIds(post.edges)
        IN  /\ n \notin post.nodes
            /\ n \notin DOMAIN post.adjacencyList
            /\ \A i \in 1..Len(post.edges) : ~Incident(post.edges[i], n)
            /\ \A m \in DOMAIN post.adjacencyList :
                   Range(post.adjacencyList[m]) \cap removed = {}
            /\ post.nodes = pre.nodes \ {n}
            /\ post.edges = NotIncidentTo(n, pre.edges)
            /\ n \notin pre.nodes =>
                   /\ post.nodes = pre.nodes
                   /\ post.edges = pre.edges
                   /\ post.adjacencyList = pre.adjacencyList

(* C14: for both engines, when the source id is not a node of the graph    *)
(* the run fails with NodeNotFound before any step: no step is ever        *)
(* yielded and the call ends with that error.                              *)
C14_MissingSourceFails ==
    sourceId \notin graph.nodes =>
        /\ steps = <<>>
        /\ pc = "done" => thrown = NodeNotFound

(* C15: generateAStarSteps yields no step and fails with NodeNotFound when *)
(* the target id is given but is not a node, and with the distinct error   *)
(* TargetRequired when no target is given at all.                          *)
C15_AStarTargetErrors ==
    (alg = "astar" /\ targetId \notin graph.nodes) =>
        /\ steps = <<>>
        /\ pc = "done" =>
              thrown = IF targetId = Null THEN "TargetRequired" ELSE NodeNotFound

(* C16: on a graph with zero nodes a run, whatever source id it is given,  *)
(* yields an empty step sequence and raises no error.                      *)
C16_ZeroNodesNoSteps ==
    graph.nodes = {} => steps = <<>> /\ thrown = Null

NonPositiveEdges == {i \in 1..Len(graph.edges) : graph.edges[i].weight <= 0}

(* C17: an edge of zero or negative weight is rejected with InvalidWeight, *)
(* by addEdge or by the engine before any step; no run yields an           *)
(* examine-edge step for an edge of non-positive weight.                   *)
C17_NonPositiveWeightRejected ==
    /\ NonPositiveEdges # {} =>
          /\ steps = <<>>
          /\ pc = "done" => thrown = "InvalidWeight"
    /\ \A i \in 1..Len(steps) :
          steps[i].type = "examine-edge" => steps[i].currentEdge.weight > 0

TerminalTypes == {"path-found", "no-path", "complete"}

(* some path leads from `from` to `to` *)
Reachable(g, from, to) == PathCosts(g, from, to, {from}) # {}

(* one select-node and one mark-visited (or terminal) step per node, three *)
(* steps at most per neighbor entry, init and the terminal step            *)
StepBound(g) == 2 + 2 * Cardinality(g.nodes) + 6 * Len(g.edges)

C18_RunShape ==
    alg = "dijkstra" =>
        /\ pc # "start" => Len(steps) >= 1 /\ steps[1].type = "init"
        /\ \A i \in 1..Len(steps) :
              steps[i].type \in TerminalTypes => i = Len(steps) /\ RunDone
        /\ RunDone =>
              LastStep.type = IF targetId = Null THEN "complete"
                              ELSE IF Reachable(graph, sourceId, targetId)
                                   THEN "path-found" ELSE "no-path"
        /\ Len(steps) <= StepBound(graph)

(* C18: every run of generateDijkstraSteps whose source is a node is       *)
(* finite, starts with an init step and has exactly one terminal step, its *)
(* last: path-found iff a target was given and is reachable, no-path iff a *)
(* target was given and is not reachable, complete iff no target was given.*)
C18_DijkstraRunTerminates ==
    /\ []C18_RunShape
    /\ (alg = "dijkstra" /\ pc = "start") ~> (alg = "dijkstra" /\ RunDone)

(* a run that ends with no-path after it explored more than the source *)
C18_Witness ==
    /\ alg = "dijkstra" /\ RunDone /\ targetId # Null
    /\ LastStep.type = "no-path"
    /\ \E i \in 1..Len(steps) : steps[i].type = "relax-edge"

(* how many entries of the heap equal entry x *)
Count(heap, x) == Cardinality({i \in 1..Len(heap) : heap[i] = x})

(* heap `after` holds the entries of heap `before` less one entry x *)
IsMinusOne(after, before, x) ==
    /\ Len(after) = Len(before) - 1
    /\ \A k \in 1..Len(before) :
          Count(after, before[k]) =
              Count(before, before[k]) - (IF before[k] = x THEN 1 ELSE 0)

(* C19: after any sequence of enqueue and dequeue calls, duplicate items   *)
(* and equal priorities allowed, dequeue returns an item of an entry whose *)
(* priority is minimal among the entries held and removes exactly that one *)
(* entry; on an empty queue it returns undefined and leaves it empty.      *)
C19_DequeueMinimal ==
    dequeued # Null =>
        IF prevPq = <<>> THEN dequeued = Undefined /\ pq = <<>>
        ELSE \E i \in 1..Len(prevPq) :
                /\ prevPq[i].item = dequeued
                /\ \A j \in 1..Len(prevPq) : prevPq[i].priority <= prevPq[j].priority
                /\ IsMinusOne(pq, prevPq, prevPq[i])

(* a dequeue from a full queue holding an item twice and a priority twice, *)
(* after which the last entry did not stay at the root                     *)
C19_Witness ==
    /\ dequeued \in QueueItems
    /\ Len(prevPq) = MaxQueue
    /\ \E i, j \in 1..Len(prevPq) :
          i # j /\ prevPq[i].item = prevPq[j].item /\ prevPq[i].priority # prevPq[j].priority
    /\ \E i, j \in 1..Len(prevPq) :
          i # j /\ prevPq[i].priority = prevPq[j].priority /\ prevPq[i].item # prevPq[j].item
    /\ pq[1] # prevPq[Len(prevPq)]

(* the positions of the select-node steps of a step sequence *)
Selections(ss) == {i \in 1..Len(ss) : ss[i].type = "select-node"}

(* the while loop is about to dequeue an entry of a visited node *)
StalePop == pc = "loop" /\ Len(pq) > 0 /\ dequeue(pq).item \in visited

(* C20: in every run of either engine a dequeued entry whose node is       *)
(* already visited yields no step and changes no distance, predecessor or  *)
(* visited state, and each node is the currentNode of at most one          *)
(* select-node step of the run.                                            *)
C20_StaleEntriesDiscarded ==
    [][/\ StalePop =>
            /\ steps' = steps
            /\ distances' = distances
            /\ predecessors' = predecessors
            /\ visited' = visited
       /\ \A i, j \in Selections(steps') :
            steps'[i].currentNode = steps'[j].currentNode => i = j]_vars

(* a finished dijkstra run that drained its queue and had enqueued more    *)
(* entries than it selected nodes: the others were dequeued stale          *)
C20_Witness ==
    /\ alg = "dijkstra" /\ RunDone /\ Len(steps) > 0
    /\ LastStep.type \in {"complete", "no-path"}
    /\ 1 + Cardinality({i \in 1..Len(steps) : steps[i].type = "relax-edge"})
          > Cardinality(Selections(steps))

(* queue snapshot `after` is `before` with one more entry x *)
IsPlusOne(after, before, x) ==
    /\ Len(after) = Len(before) + 1
    /\ \A k \in 1..Len(after) :
          Count(after, after[k]) =
              Count(before, after[k]) + (IF after[k] = x THEN 1 ELSE 0)

(* the step after examine-edge step i of ss is the relax-edge or skip-edge *)
(* the claim describes                                                     *)
ExamineFollowedRight(ss, i) ==
    LET ex == ss[i]
        nx == ss[i + 1]
        u  == ex.currentNode
        v  == ex.currentEdge.to
        nd == ex.distances[u] + ex.currentEdge.weight
    IN  /\ nx.type \in {"relax-edge", "skip-edge"}
        /\ nx.currentNode = u
        /\ nx.currentEdge.edgeId = ex.currentEdge.edgeId
        /\ nx.currentEdge.to = v
        /\ nx.visited = ex.visited
        /\ IF nd < ex.distances[v]
           THEN /\ nx.type = "relax-edge"
                /\ nx.distances = [ex.distances EXCEPT ![v] = nd]
                /\ nx.predecessors = [ex.predecessors EXCEPT ![v] = u]
                /\ IsPlusOne(nx.queue, ex.queue, [nodeId |-> v, priority |-> nd])
           ELSE /\ nx.type = "skip-edge"
                /\ nx.distances = ex.distances
                /\ nx.predecessors = ex.predecessors
                /\ nx.queue = ex.queue

(* the first step after position m of ss that leaves the neighbor loop *)
LoopEnd(ss, m) ==
    LET after == {k \in (m + 1)..Len(ss) :
                     ss[k].type \in TerminalTypes \cup {"select-node"}}
    IN  IF after = {} THEN 0 ELSE CHOOSE k \in after : \A l \in after : k <= l

(* after mark-visited step m of ss, each neighbour outside visited has one *)
(* examine-edge step and no other node has any                             *)
NeighboursExaminedOnce(ss, m) ==
    LET u     == ss[m].currentNode
        nbs   == getNeighbors(sets, graph, u)
        open  == {nbs[j].nodeId : j \in 1..Len(nbs)} \ ss[m].visited
        exam  == {i \in (m + 1)..(LoopEnd(ss, m) - 1) : ss[i].type = "examine-edge"}
    IN  /\ \A v \in open :
              Cardinality({i \in exam : ss[i].currentEdge.to = v}) = 1
        /\ \A i \in exam : ss[i].currentEdge.to \in open /\ ss[i].currentNode = u

C22_AStarRelaxPushes ==
    alg = "astar" =>
        \A i \in 1..Len(steps) :
            steps[i].type = "relax-edge" =>
                LET v == steps[i].currentEdge.to
                    f == steps[i].currentEdge.newDistance + heuristic[v]
                IN  \E k \in 1..Len(steps[i].queue) :
                        steps[i].queue[k] = [nodeId |-> v, priority |-> f]

(* the edges step st classifies as relaxed *)
RelaxedIn(st) == {e \in DOMAIN st.edgeStates : st.edgeStates[e] = "relaxed"}

(* C23 as stated: in both engines an edge e is classified relaxed in a     *)
(* step only if that step is the relax-edge step whose currentEdge is e;   *)
(* in every later step e is no longer relaxed.                             *)
C23_RelaxedOnlyInItsStep ==
    \A i \in 1..Len(steps) : \A e \in RelaxedIn(steps[i]) :
        steps[i].type = "relax-edge" /\ steps[i].currentEdge.edgeId = e

(* C23 amended: an edge e is classified relaxed in a step only if that     *)
(* step is the relax-edge step of e or a later step of the same neighbor   *)
(* loop, with no select-node or terminal step in between; init,            *)
(* select-node, mark-visited and terminal steps classify no edge relaxed.  *)
C23_RelaxedOnlyInItsLoop ==
    \A i \in 1..Len(steps) : \A e \in RelaxedIn(steps[i]) :
        /\ steps[i].type \in {"examine-edge", "relax-edge", "skip-edge"}
        /\ \E j \in 1..i :
              /\ steps[j].type = "relax-edge"
              /\ steps[j].currentEdge.edgeId = e
              /\ steps[j].currentNode = steps[i].currentNode
              /\ \A k \in (j + 1)..i :
                    steps[k].type \notin TerminalTypes \cup {"select-node"}

(* a finished run in which an examine-edge step of another edge still      *)
(* classifies an edge relaxed, and the next select-node step does not      *)
C23_Witness ==
    /\ RunDone
    /\ \E i \in 1..Len(steps) : \E e \in RelaxedIn(steps[i]) :
          /\ steps[i].type = "examine-edge"
          /\ steps[i].currentEdge.edgeId # e
          /\ \E k \in (i + 1)..Len(steps) :
                steps[k].type = "select-node" /\ RelaxedIn(steps[k]) = {}

(* the state a step records *)
Recorded(st) ==
    <<st.distances, st.predecessors, st.visited, st.queue, st.nodeStates, st.edgeStates>>

C25_VisitedIsFinal ==
    /\ \A i \in 1..Len(steps) : \A j \in i..Len(steps) :
          \A n \in steps[i].visited :
              /\ n \in steps[j].visited
              /\ steps[j].distances[n] = steps[i].distances[n]
              /\ steps[j].predecessors[n] = steps[i].predecessors[n]
    /\ \A i \in 1..(Len(steps) - 1) :
          \A n \in DOMAIN steps[i].distances :
              steps[i + 1].distances[n] <= steps[i].distances[n]

(* a finished run in which a node was visited while a neighbour of it was  *)
(* relaxed later, and some distance was lowered twice                      *)
C25_Witness ==
    /\ RunDone
    /\ \E i \in 1..Len(steps) :
          /\ steps[i].type = "skip-edge"
          /\ steps[i].visited # {}
    /\ \E i \in 1..Len(steps) :
          /\ steps[i].type = "relax-edge"
          /\ steps[i].currentEdge.oldDistance < Infinity
          /\ Cardinality(steps[i].visited) >= 2

(* the entries the edges map allows from n: one per traversable edge *)
TraversableEntries(g, n) ==
    {[nodeId |-> IF g.edges[i].source = n THEN g.edges[i].target ELSE g.edges[i].source,
      edgeId |-> g.edges[i].id,
      weight |-> g.edges[i].weight] :
        i \in {j \in 1..Len(g.edges) :
                  \/ g.edges[j].source = n
                  \/ ~g.directed /\ g.edges[j].target = n}}

(* C26: getNeighbors(g, n) returns exactly one entry (other endpoint, edge *)
(* id, weight) for each edge that can be traversed from n and nothing      *)
(* else: in a directed graph the edges whose source is n, in an undirected *)
(* graph those whose source or target is n; for an n without adjacency     *)
(* entry it returns the empty list.                                        *)
C26_NeighborsExact ==
    \A n \in graph.nodes \cup EditNodeIds \cup {MissingId} :
        LET nbs == getNeighbors(sets, graph, n)
        IN  /\ Range(nbs) = TraversableEntries(graph, n)
            /\ \A i, j \in 1..Len(nbs) : nbs[i].edgeId = nbs[j].edgeId => i = j
            /\ n \notin DOMAIN graph.adjacencyList => nbs = <<>>

(* an undirected graph where an edge is traversed from its target, and an  *)
(* adjacency set holds an id that getNeighbors leaves out                  *)
C26_Witness ==
    /\ ~graph.directed
    /\ \E i \in 1..Len(graph.edges) :
          /\ graph.edges[i].source # graph.edges[i].target
          /\ \E nb \in Range(getNeighbors(sets, graph, graph.edges[i].target)) :
                nb.edgeId = graph.edges[i].id /\ nb.nodeId = graph.edges[i].source
    /\ \E n \in DOMAIN graph.adjacencyList :
          Len(sets[graph.adjacencyList[n]]) > Len(getNeighbors(sets, graph, n))

(* ---------- useAlgorithmVisualizer: playback of the generated steps ---------- *)
MaxClicks == 4

(* the hook's state as one value *)
Hook ==
    [steps |-> hookSteps, ref |-> stepsRef, index |-> currentStepIndex,
     running |-> isRunning, paused |-> isPaused, timer |-> timerSet]

(* the dependency list of the auto-advance effect; the speed is left constant *)
Deps(h) == <<h.running, h.paused, h.index>>

(* one run of the auto-advance effect, after the cleanup of its previous run *)
EffectBody(h) ==
    LET c == [h EXCEPT !.timer = FALSE]
    IN  IF c.running /\ ~c.paused /\ c.index < Len(c.ref) - 1
        THEN [c EXCEPT !.timer = TRUE]
        ELSE IF c.index >= Len(c.ref) - 1 /\ c.running
             THEN [c EXCEPT !.running = FALSE]
             ELSE c

(* the effect runs after every render that changed one of its dependencies *)
AutoAdvance(old, new) ==
    IF Deps(new) = Deps(old) THEN new
    ELSE LET a == EffectBody(new)
         IN  IF Deps(a) = Deps(new) THEN a ELSE EffectBody(a)

(* the state a handler leaves is rendered and the effect has run *)
Render(new) ==
    LET h == AutoAdvance(Hook, new)
    IN  /\ hookSteps' = h.steps /\ stepsRef' = h.ref
        /\ currentStepIndex' = h.index
        /\ isRunning' = h.running /\ isPaused' = h.paused
        /\ timerSet' = h.timer

(* start, from setSteps on *)
started(h, generated) ==
    [h EXCEPT !.steps = generated, !.ref = generated, !.index = 0,
              !.running = TRUE, !.paused = FALSE]

pause(h) == [h EXCEPT !.paused = TRUE, !.timer = FALSE]

resume(h) == [h EXCEPT !.paused = FALSE]

reset(h) ==
    [steps |-> <<>>, ref |-> <<>>, index |-> -1,
     running |-> FALSE, paused |-> FALSE, timer |-> FALSE]

nextStep(h) ==
    IF h.index < Len(h.steps) - 1 THEN [h EXCEPT !.index = h.index + 1] ELSE h

prevStep(h) ==
    IF h.index > 0 THEN [h EXCEPT !.index = h.index - 1] ELSE h

goToStep(h, index) ==
    IF index >= 0 /\ index < Len(h.steps) THEN [h EXCEPT !.index = index] ELSE h

(* the index names one of the steps *)
InSteps == currentStepIndex >= 0 /\ currentStepIndex < Len(hookSteps)

(* steps[currentStepIndex], Null when the index is outside the steps *)
currentStep == IF InSteps THEN hookSteps[currentStepIndex + 1] ELSE Null

(* currentStep?.type is undefined when currentStep is null *)
isComplete ==
    /\ currentStepIndex >= 0
    /\ currentStepIndex = Len(hookSteps) - 1
    /\ InSteps
    /\ currentStep.type \in {"complete", "path-found", "no-path"}

(* a handler runs to its end before the next one or a timeout is taken *)
Idle == pc = "idle"

Used(name) ==
    /\ clicks < MaxClicks
    /\ clicks' = clicks + 1
    /\ lastCall' = name

notPlayerVars == <<sets, graph, editVars, queueVars, mapVars, runVars>>

(* start: its early returns, generateSteps on an empty graph, or the call of *)
(* the generator, whose steps StartCommit hands to the hook                  *)
startHandler ==
    IF sourceId = Null \/ (alg = "astar" /\ targetId = Null)
    THEN UNCHANGED <<hookSteps, stepsRef, currentStepIndex, isRunning, isPaused,
                     timerSet, notPlayerVars>>
    ELSE IF graph.nodes = {}
    THEN Render(started(Hook, <<>>)) /\ UNCHANGED notPlayerVars
    ELSE /\ pc' = "start" /\ steps' = <<>> /\ thrown' = Null
         /\ UNCHANGED <<hookSteps, stepsRef, currentStepIndex, isRunning, isPaused,
                        timerSet>>
         /\ UNCHANGED <<sets, graph, editVars, queueVars, mapVars, plan, runNo,
                        sourceId, targetId, heuristic, localVars, prevSteps>>

Start == Idle /\ Used("start") /\ startHandler

(* the generator is exhausted: setSteps(generated) and the rest of start *)
StartCommit ==
    /\ pc = "done" /\ thrown = Null
    /\ Render(started(Hook, steps))
    /\ pc' = "idle"
    /\ UNCHANGED <<lastCall, clicks>>
    /\ UNCHANGED <<sets, graph, editVars, queueVars, mapVars, thrown, plan, runNo,
                   sourceId, targetId, heuristic, localVars, steps, prevSteps>>

(* the generator threw: start is left before setSteps *)
StartThrown ==
    /\ pc = "done" /\ thrown # Null
    /\ pc' = "idle"
    /\ UNCHANGED playerVars
    /\ UNCHANGED <<sets, graph, editVars, queueVars, mapVars, thrown, plan, runNo,
                   sourceId, targetId, heuristic, localVars, steps, prevSteps>>

Handled(name, new) ==
    /\ Idle
    /\ Used(name)
    /\ Render(new)
    /\ UNCHANGED notPlayerVars

Pause == Handled("pause", pause(Hook))

Resume == Handled("resume", resume(Hook))

Reset == Handled("reset", reset(Hook))

NextStep == Handled("nextStep", nextStep(Hook))

PrevStep == Handled("prevStep", prevStep(Hook))

GoToStep == \E index \in -1..Len(hookSteps) : Handled("goToStep", goToStep(Hook, index))

(* the timeout fires: setCurrentStepIndex(prev => prev + 1) *)
Tick ==
    /\ Idle
    /\ timerSet
    /\ Render([Hook EXCEPT !.index = currentStepIndex + 1, !.timer = FALSE])
    /\ UNCHANGED <<lastCall, clicks, notPlayerVars>>

Generate ==
    \/ GenInit \/ SkipStale \/ SelectNode \/ PathFound \/ MarkVisited
    \/ ExamineEdge \/ RelaxEdge \/ SkipEdge \/ EndNeighbors
    \/ NoPath \/ Complete

(* no node at all, A - B - C with the long way A - C, or the one-way *)
(* triangle A -> B -> C, A -> C with D apart                          *)
PlayerGraphs ==
    { [sets |-> NoSets, graph |-> createGraph(FALSE)],
      BuildGraph(FALSE, <<"A", "B", "C">>,
          << Edge("AB", "A", "B", 1), Edge("BC", "B", "C", 1),
             Edge("AC", "A", "C", 3) >>),
      BuildGraph(TRUE, <<"A", "B", "C", "D">>,
          << Edge("AB", "A", "B", 1), Edge("BC", "B", "C", 1),
             Edge("AC", "A", "C", 1) >>) }

NoCall ==
    /\ pc = "idle" /\ thrown = Null
    /\ distances = <<>> /\ fScore = <<>> /\ predecessors = <<>> /\ visited = {}
    /\ nodeStates = <<>> /\ edgeStates = <<>> /\ pq = <<>> /\ inOpenSet = {}
    /\ currentId = Null /\ neighbors = <<>> /\ idx = 0 /\ viaEdge = <<>>
    /\ steps = <<>> /\ prevSteps = <<>>

(* the hook is mounted with any graph, source, target and algorithm *)
InitPlayer ==
    /\ \E sg \in PlayerGraphs : sets = sg.sets /\ graph = sg.graph
    /\ sourceId \in {"A", Null}
    /\ targetId \in graph.nodes \cup {MissingId, Null}
    /\ plan \in {<<"dijkstra">>, <<"astar">>}
    /\ runNo = 1
    /\ heuristic = ZeroHeuristic(graph)
    /\ NoCall
    /\ NoEdit
    /\ NoQueueCall
    /\ NoPlayback
    /\ NoRouting

NextPlayer ==
    \/ Start \/ StartCommit \/ StartThrown
    \/ Pause \/ Resume \/ Reset \/ NextStep \/ PrevStep \/ GoToStep \/ Tick
    \/ GenInit \/ Throw \/ SkipStale \/ SelectNode \/ PathFound \/ MarkVisited
    \/ ExamineEdge \/ RelaxEdge \/ SkipEdge \/ EndNeighbors
    \/ NoPath \/ Complete

SpecPlayer == InitPlayer /\ [][NextPlayer]_vars

(* ---------- the control panel of the visualizer page over the hook ---------- *)
hasStarted == currentStepIndex >= 0

canStart ==
    /\ sourceId # Null
    /\ graph.nodes # {}
    /\ (alg = "dijkstra" \/ targetId # Null)

(* the play button is shown in place of the pause button *)
PlayShown == ~isRunning \/ isPaused

(* onClick={hasStarted && !isComplete ? onResume : onStart} *)
Play ==
    /\ Idle
    /\ PlayShown
    /\ canStart
    /\ Used("play")
    /\ IF hasStarted /\ ~isComplete
       THEN Render(resume(Hook)) /\ UNCHANGED notPlayerVars
       ELSE startHandler

PauseButton == ~PlayShown /\ Handled("pause", pause(Hook))

PrevButton ==
    /\ hasStarted /\ currentStepIndex # 0
    /\ Handled("prevStep", prevStep(Hook))

NextButton ==
    /\ hasStarted /\ currentStepIndex < Len(hookSteps) - 1
    /\ Handled("nextStep", nextStep(Hook))

ResetButton == hasStarted /\ Handled("reset", reset(Hook))

(* the page holds a node of the graph, or nothing, as source and as target *)
InitPanel ==
    /\ \E sg \in PlayerGraphs : sets = sg.sets /\ graph = sg.graph
    /\ sourceId \in ({"A"} \cap graph.nodes) \cup {Null}
    /\ targetId \in graph.nodes \cup {Null}
    /\ plan \in {<<"dijkstra">>, <<"astar">>}
    /\ runNo = 1
    /\ heuristic = ZeroHeuristic(graph)
    /\ NoCall
    /\ NoEdit
    /\ NoQueueCall
    /\ NoPlayback
    /\ NoRouting

NextPanel ==
    \/ Play \/ PauseButton \/ PrevButton \/ NextButton \/ ResetButton
    \/ StartCommit \/ Tick
    \/ GenInit \/ SkipStale \/ SelectNode \/ PathFound \/ MarkVisited
    \/ ExamineEdge \/ RelaxEdge \/ SkipEdge \/ EndNeighbors
    \/ NoPath \/ Complete

(* a pending timeout fires, and a handler that was entered runs to its end *)
SpecPanel ==
    InitPanel /\ [][NextPanel]_vars
        /\ WF_vars(Tick) /\ WF_vars(Generate \/ StartCommit)

(* C27: after any sequence of start, pause, resume, reset, nextStep, prevStep, *)
(* goToStep and timer ticks, currentStepIndex is -1 with no steps loaded or an *)
(* index of a loaded step, and currentStep is non-null when it is 0 or more    *)
C27_IndexValid ==
    \/ currentStepIndex = -1 /\ Len(hookSteps) = 0
    \/ /\ currentStepIndex \in 0..(Len(hookSteps) - 1)
       /\ InSteps

(* C28: once the play control is used with steps loaded and the current step *)
(* not the last one, the timer brings currentStepIndex to the last step      *)
(* unless pause or reset comes in between                                    *)
C28_PlayRunsToEnd ==
    (/\ lastCall = "play"
     /\ Len(hookSteps) > 0
     /\ currentStepIndex >= 0
     /\ currentStepIndex < Len(hookSteps) - 1)
        ~> (\/ currentStepIndex = Len(hookSteps) - 1
            \/ lastCall \in {"pause", "reset"})

(* ---------- useMapRouting under the map page's control panel ---------- *)
MaxCoord == 2

MaxRequests == 2

(* the places a click or a drag can name *)
Coords == 1..MaxCoord

MapMarker(id, type, lat, lng) == [id |-> id, type |-> type, lat |-> lat, lng |-> lng]

(* markers.find(m => m.type === type), <<>> when there is none *)
FindMarker(ms, type) == SelectSeq(ms, LAMBDA m : m.type = type)

(* the route value and the explored nodes a request's answer is turned into *)
Loading(n) == [coordinates |-> <<>>, isLoading |-> TRUE, error |-> FALSE, request |-> n]

RouteOf(r) ==
    [coordinates |-> << <<r.start.lat, r.start.lng>>, <<r.end.lat, r.end.lng>> >>,
     isLoading |-> FALSE, error |-> FALSE, request |-> r.id]

Failed(r) == [coordinates |-> <<>>, isLoading |-> FALSE, error |-> TRUE, request |-> r.id]

generateExploredNodes(r) ==
    << [lat |-> r.start.lat, lng |-> r.start.lng], [lat |-> r.end.lat, lng |-> r.end.lng] >>

handleMapClick(prev, lat, lng) ==
    IF Len(prev) = 0 THEN << MapMarker("start", "start", lat, lng) >>
    ELSE << prev[1], MapMarker("end", "end", lat, lng) >>

handleMarkerDrag(prev, id, lat, lng) ==
    [i \in 1..Len(prev) |->
        IF prev[i].id = id THEN [prev[i] EXCEPT !.lat = lat, !.lng = lng] ELSE prev[i]]

swapMarkers(prev) ==
    IF Len(prev) # 2 THEN prev
    ELSE [i \in 1..Len(prev) |->
            [prev[i] EXCEPT !.type = IF prev[i].type = "start" THEN "end" ELSE "start",
                            !.id = IF prev[i].type = "start" THEN "end" ELSE "start"]]

notMapVars == <<sets, graph, editVars, queueVars, playerVars, runVars>>

HandleMapClick ==
    \E lat \in Coords, lng \in Coords :
        /\ markers' = handleMapClick(markers, lat, lng)
        /\ UNCHANGED <<route, exploredNodes, pending, requests, current, notMapVars>>

(* a marker on the map is dragged *)
HandleMarkerDrag ==
    \E i \in 1..Len(markers), lat \in Coords, lng \in Coords :
        /\ markers' = handleMarkerDrag(markers, markers[i].id, lat, lng)
        /\ UNCHANGED <<route, exploredNodes, pending, requests, current, notMapVars>>

canCalculate ==
    /\ FindMarker(markers, "start") # <<>>
    /\ FindMarker(markers, "end") # <<>>
    /\ ~(route # <<>> /\ route[1].isLoading)

(* calculateRoute and fetchRoute up to its await *)
CalculateRoute ==
    /\ canCalculate
    /\ requests < MaxRequests
    /\ LET start == FindMarker(markers, "start")
           end   == FindMarker(markers, "end")
       IN  /\ start # <<>> /\ end # <<>>
           /\ requests' = requests + 1
           /\ current' = requests + 1
           /\ route' = << Loading(requests + 1) >>
           /\ exploredNodes' = <<>>
           /\ pending' = pending \cup
                  {[id |-> requests + 1, start |-> start[1], end |-> end[1]]}
    /\ UNCHANGED <<markers, notMapVars>>

ClearAll ==
    /\ Len(markers) # 0
    /\ markers' = <<>>
    /\ route' = <<>>
    /\ exploredNodes' = <<>>
    /\ current' = 0
    /\ UNCHANGED <<pending, requests, notMapVars>>

SwapMarkers ==
    /\ ~(Len(markers) < 2)
    /\ markers' = swapMarkers(markers)
    /\ route' = <<>>
    /\ exploredNodes' = <<>>
    /\ current' = 0
    /\ UNCHANGED <<pending, requests, notMapVars>>

(* fetchRoute after its await: the answer of some request arrives *)
RouteResponse ==
    \E r \in pending :
        /\ pending' = pending \ {r}
        /\ exploredNodes' = generateExploredNodes(r)
        /\ route' = << RouteOf(r) >>
        /\ UNCHANGED <<markers, requests, current, notMapVars>>

(* fetchRoute's catch: the request failed or timed out *)
RouteError ==
    \E r \in pending :
        /\ pending' = pending \ {r}
        /\ route' = << Failed(r) >>
        /\ UNCHANGED <<markers, exploredNodes, requests, current, notMapVars>>

InitMap ==
    /\ sets = NoSets
    /\ graph = createGraph(FALSE)
    /\ NoEdit
    /\ NoRun
    /\ NoQueueCall
    /\ NoPlayback
    /\ NoRouting

NextMap ==
    \/ HandleMapClick \/ HandleMarkerDrag \/ CalculateRoute \/ ClearAll \/ SwapMarkers
    \/ RouteResponse \/ RouteError

SpecMap == InitMap /\ [][NextMap]_vars

Ids(ms) == {ms[i].id : i \in 1..Len(ms)}

(* C29: the marker list holds at most two markers, with distinct ids, at most *)
(* one of type start and at most one of type end, and a start marker whenever *)
(* it is not empty; so a click on two markers leaves a start and an end       *)
C29_MarkersWellFormed ==
    /\ Len(markers) <= 2
    /\ Cardinality(Ids(markers)) = Len(markers)
    /\ Len(FindMarker(markers, "start")) <= 1
    /\ Len(FindMarker(markers, "end")) <= 1
    /\ (Len(markers) # 0 => FindMarker(markers, "start") # <<>>)

(* C30: route and exploredNodes only ever show the current request: they are *)
(* null and empty after clearAll or swapMarkers until the next calculateRoute, *)
(* and a later request's state is not overwritten by an earlier one's answer  *)
C30_OnlyCurrentRequestShown ==
    /\ (route # <<>> => route[1].request = current)
    /\ (current = 0 => exploredNodes = <<>>)

====
